---- MODULE Spec2Model ----
(***************************************************************************)
(* Disk-space monitor of grafana-monitoring-utils: the bounded in-memory   *)
(* series store (MetricsStore), the collector (collectMetrics), the range  *)
(* query and its projection (grafanaHandler), and the relative-time parser *)
(* (parseSimpleTime).                                                      *)
(***************************************************************************)
EXTENDS Integers, Sequences, FiniteSets, TLC

(***************************************************************************)
(* Bounds of the model.                                                    *)
(***************************************************************************)
\* store.maxSize is 60 * 24 in the program; the model runs it scaled down.
maxSize == 2
\* The clock (whole seconds, time.Now().Unix()) runs from 0 to MaxTime.
MaxTime == 1
\* Number of collectMetrics runs that may start in one behaviour.
MaxCycles == 3

(***************************************************************************)
(* The operating system: partitions and their usage.                       *)
(***************************************************************************)
\* The mount points of the host.
Mountpoints == {"/", "/data"}

\* What disk.Usage reports for a mount point during the n-th collection
\* run: the disks fill up from run to run, so two snapshots always differ,
\* also when they are taken within one second.
UsageStat(path, n) ==
    IF path = "/"
    THEN [Total |-> 200, Used |-> 10 * n, Free |-> 190 - 10 * n, UsedPercent |-> 5 * n]
    ELSE [Total |-> 500, Used |-> 300 + n, Free |-> 200 - n, UsedPercent |-> 60 + n]

\* The outcome of one disk.Usage call: an error, or a reading.
ProbeError == [err |-> TRUE]
ProbeOutcomes(path, n) == {ProbeError, [err |-> FALSE, usage |-> UsageStat(path, n)]}

(***************************************************************************)
(* MetricsStore                                                            *)
(***************************************************************************)
\* PartitionMetrics built from a successful probe (collectMetrics).
PartitionMetrics(path, usage) ==
    [Path |-> path, Total |-> usage.Total, Used |-> usage.Used,
     Free |-> usage.Free, UsagePercent |-> usage.UsedPercent]

\* s.data = append(s.data, metrics)
appendStep(d, metrics) == Append(d, metrics)

\* The comparison off by one: the store is let grow to maxSize + 1.
overCapacityLate(d) == Len(d) > maxSize + 1

\* if len(s.data) > s.maxSize
overCapacity(d) == Len(d) > maxSize

\* The newest snapshot dropped instead of the oldest: s.data[:len(s.data)-1].
dropNewest(d) == SubSeq(d, 1, Len(d) - 1)

\* s.data = s.data[1:]
dropStep(d) == SubSeq(d, 2, Len(d))

\* MetricsStore.add, run without interruption.
add(d, metrics) ==
    LET a == appendStep(d, metrics)
    IN  IF overCapacity(a) THEN dropStep(a) ELSE a

\* ts.After(fromTime) && ts.Before(toTime) || ts.Equal(fromTime) || ts.Equal(toTime)
\* with ts = time.Unix(m.Timestamp, 0); instants are whole seconds.
inRange(ts, fromTime, toTime) ==
    \/ (ts > fromTime /\ ts < toTime)
    \/ ts = fromTime
    \/ ts = toTime

\* MetricsStore.getRange: the loop over s.data, in slice order.
RECURSIVE getRange(_, _, _)
getRange(d, fromTime, toTime) ==
    IF d = <<>> THEN <<>>
    ELSE LET m    == Head(d)
             rest == getRange(Tail(d), fromTime, toTime)
         IN  IF inRange(m.Timestamp, fromTime, toTime) THEN <<m>> \o rest ELSE rest

(***************************************************************************)
(* collectMetrics                                                          *)
(***************************************************************************)
\* The loop left at the first failed probe (break instead of continue).
RECURSIVE probeAllBreak(_, _)
probeAllBreak(partitions, outcomes) ==
    IF partitions = <<>> THEN <<>>
    ELSE IF Head(outcomes).err THEN <<>>
         ELSE <<PartitionMetrics(Head(partitions), Head(outcomes).usage)>>
                \o probeAllBreak(Tail(partitions), Tail(outcomes))

\* The loop over the discovered partitions: outcomes[i] is what disk.Usage
\* returned for partitions[i]; a failed probe is skipped.
RECURSIVE probeAll(_, _)
probeAll(partitions, outcomes) ==
    IF partitions = <<>> THEN <<>>
    ELSE LET rest == probeAll(Tail(partitions), Tail(outcomes))
         IN  IF Head(outcomes).err THEN rest
             ELSE <<PartitionMetrics(Head(partitions), Head(outcomes).usage)>> \o rest

\* The gauges after the loop: diskUsage / diskUsagePercent, keyed by path,
\* are set for every partition whose probe succeeded.
RECURSIVE setGauges(_, _, _)
setGauges(g, partitions, outcomes) ==
    IF partitions = <<>> THEN g
    ELSE LET g1 == IF Head(outcomes).err THEN g
                   ELSE [g EXCEPT ![Head(partitions)] = Head(outcomes).usage]
         IN  setGauges(g1, Tail(partitions), Tail(outcomes))

\* The DiskMetrics value a run builds.
DiskMetrics(timestamp, partitions) ==
    [Timestamp |-> timestamp, Partitions |-> partitions]

\* All outcome vectors for a partition list probed during run n.
OutcomeVectors(partitions, n) ==
    LET idx == 1..Len(partitions)
    IN  { o \in [idx -> UNION {ProbeOutcomes(partitions[i], n) : i \in idx}] :
            \A i \in idx : o[i] \in ProbeOutcomes(partitions[i], n) }

\* The mount tables of the hosts the program is run on: what
\* disk.Partitions(false) returns when it succeeds, in discovery order.
SmallHost == <<"/">>
DataHost  == <<"/", "/data">>

(***************************************************************************)
(* Numbers in strings.  A string is a sequence of one-character strings.   *)
(***************************************************************************)
Digits == <<"0", "1", "2", "3", "4", "5", "6", "7", "8", "9">>

isDigit(c) == \E i \in 1..10 : Digits[i] = c

digitVal(c) == (CHOOSE i \in 1..10 : Digits[i] = c) - 1

\* The value of a string of digits, most significant first.
RECURSIVE digitsValue(_)
digitsValue(s) ==
    IF s = <<>> THEN 0
    ELSE digitsValue(SubSeq(s, 1, Len(s) - 1)) * 10 + digitVal(s[Len(s)])

(***************************************************************************)
(* 64-bit integers.  A natural number is the sequence of its digits in     *)
(* base 2^15 = 32768, least significant first, without leading zeros; an   *)
(* int64 (and a time.Duration, which counts nanoseconds) is a word of five *)
(* such digits, the last one holding the top four bits, in two's           *)
(* complement.                                                             *)
(***************************************************************************)
\* The digits of a number small enough to be written down.
RECURSIVE natOf(_)
natOf(n) == IF n = 0 THEN <<>> ELSE <<n % 32768>> \o natOf(n \div 32768)

RECURSIVE natTrim(_)
natTrim(a) ==
    IF a # <<>> /\ a[Len(a)] = 0 THEN natTrim(SubSeq(a, 1, Len(a) - 1)) ELSE a

RECURSIVE natAddCarry(_, _, _)
natAddCarry(a, b, carry) ==
    IF a = <<>> /\ b = <<>> THEN (IF carry = 0 THEN <<>> ELSE <<carry>>)
    ELSE LET x   == IF a = <<>> THEN 0 ELSE Head(a)
             y   == IF b = <<>> THEN 0 ELSE Head(b)
             sum == x + y + carry
         IN  <<sum % 32768>> \o
             natAddCarry(IF a = <<>> THEN <<>> ELSE Tail(a),
                         IF b = <<>> THEN <<>> ELSE Tail(b), sum \div 32768)

natAdd(a, b) == natTrim(natAddCarry(a, b, 0))

\* a times one digit k.
RECURSIVE natMulDigit(_, _, _)
natMulDigit(a, k, carry) ==
    IF a = <<>> THEN natOf(carry)
    ELSE LET prod == Head(a) * k + carry
         IN  <<prod % 32768>> \o natMulDigit(Tail(a), k, prod \div 32768)

RECURSIVE natMul(_, _)
natMul(a, b) ==
    IF b = <<>> THEN <<>>
    ELSE natAdd(natTrim(natMulDigit(a, Head(b), 0)),
                natTrim(<<0>> \o natMul(a, Tail(b))))

\* a < b
RECURSIVE natLess(_, _)
natLess(a, b) ==
    IF Len(a) # Len(b) THEN Len(a) < Len(b)
    ELSE IF a = <<>> THEN FALSE
    ELSE IF a[Len(a)] # b[Len(b)] THEN a[Len(a)] < b[Len(b)]
    ELSE natLess(SubSeq(a, 1, Len(a) - 1), SubSeq(b, 1, Len(b) - 1))

\* The low 64 bits of a natural number.
word64(a) ==
    [i \in 1..5 |-> IF i > Len(a) THEN 0 ELSE IF i = 5 THEN a[i] % 16 ELSE a[i]]

\* The word read as an unsigned number.
natOfWord(w) == natTrim(w)

\* -w, in two's complement.
neg64(w) ==
    word64(natAdd(natTrim([i \in 1..5 |-> (IF i = 5 THEN 15 ELSE 32767) - w[i]]),
                  natOf(1)))

\* x * y on int64: the product wraps around.
mul64(x, y) == word64(natMul(natOfWord(x), natOfWord(y)))

\* Bit 63 is set.
isNegative64(w) == w[5] >= 8

\* 1 << 63
TwoTo63 == <<0, 0, 0, 0, 8>>

\* time.Second, time.Minute and time.Hour, in nanoseconds.
Second == natOf(1000000000)
Minute == natMul(natOf(60), Second)
Hour   == natMul(natOf(60), Minute)

\* time.Millisecond, in nanoseconds, is 1000 * 1000.
Thousand == 1000

\* x - y on int64: the difference wraps around.
sub64(x, y) == word64(natAdd(natOfWord(x), natOfWord(neg64(y))))

\* x <= y on int64.
lessEq64(x, y) ==
    IF isNegative64(x) # isNegative64(y) THEN isNegative64(x)
    ELSE ~natLess(natOfWord(y), natOfWord(x))

\* The quotient of a natural number (most significant digit first in the
\* recursion) by a small k, with the remainder carried down.
RECURSIVE natDivSmall(_, _, _)
natDivSmall(a, k, rem) ==
    IF a = <<>> THEN <<>>
    ELSE LET cur == rem * 32768 + a[Len(a)]
         IN  Append(natDivSmall(SubSeq(a, 1, Len(a) - 1), k, cur % k), cur \div k)

\* x / 1000000 on int64: Go's division truncates toward zero.
quoMillion64(x) ==
    LET mag == IF isNegative64(x) THEN natOfWord(neg64(x)) ELSE natOfWord(x)
        quo == natTrim(natDivSmall(natTrim(natDivSmall(mag, Thousand, 0)), Thousand, 0))
    IN  IF isNegative64(x) THEN neg64(word64(quo)) ELSE word64(quo)

(***************************************************************************)
(* parseSimpleTime                                                         *)
(***************************************************************************)
\* The value of a string of digits as a natural number (four digits at a time).
RECURSIVE natOfDigits(_)
natOfDigits(s) ==
    IF Len(s) <= 4 THEN natOf(digitsValue(s))
    ELSE natAdd(natMul(natOfDigits(SubSeq(s, 1, Len(s) - 4)), natOf(10000)),
                natOf(digitsValue(SubSeq(s, Len(s) - 3, Len(s)))))

\* strconv.Atoi where int has 64 bits: an optional sign and one or more
\* digits; the value must fit an int64.
Atoi(s) ==
    LET signed == s # <<>> /\ Head(s) \in {"+", "-"}
        neg    == signed /\ Head(s) = "-"
        body   == IF signed THEN Tail(s) ELSE s
    IN  IF body = <<>> \/ \E i \in 1..Len(body) : ~isDigit(body[i])
        THEN [err |-> TRUE, val |-> word64(<<>>)]
        ELSE LET mag == natOfDigits(body)
             IN  IF (~neg /\ ~natLess(mag, TwoTo63)) \/ (neg /\ natLess(TwoTo63, mag))
                 THEN [err |-> TRUE, val |-> word64(<<>>)]
                 ELSE [err |-> FALSE,
                       val |-> IF neg THEN neg64(word64(mag)) ELSE word64(mag)]

\* strconv.ParseInt(s, 10, 64), as [err, val]: an optional sign, then one
\* or more digits, and the value must fit an int64; anything else (the
\* empty string included) is an error.  The parameters that parse are
\* within a few seconds of the epoch, as the clock is.
ParseInt(s) ==
    LET signed == s # <<>> /\ Head(s) \in {"+", "-"}
        body   == IF signed THEN Tail(s) ELSE s
    IN  IF Atoi(s).err
        THEN [err |-> TRUE, val |-> 0]
        ELSE [err |-> FALSE,
              val |-> IF signed /\ Head(s) = "-" THEN 0 - digitsValue(body)
                      ELSE digitsValue(body)]

\* Go's integer division truncates toward zero.
goDiv(a, b) == IF a >= 0 THEN a \div b ELSE 0 - ((0 - a) \div b)

\* White space as strings.TrimSpace sees it.
isSpace(c) == c \in {" ", "\t", "\n", "\r"}

RECURSIVE trimLeft(_)
trimLeft(s) == IF s # <<>> /\ isSpace(Head(s)) THEN trimLeft(Tail(s)) ELSE s

RECURSIVE trimRight(_)
trimRight(s) ==
    IF s # <<>> /\ isSpace(s[Len(s)]) THEN trimRight(SubSeq(s, 1, Len(s) - 1)) ELSE s

TrimSpace(s) == trimRight(trimLeft(s))

\* strings.ToLower on the unit letters.
ToLower(c) ==
    IF c = "M" THEN "m" ELSE IF c = "H" THEN "h" ELSE IF c = "D" THEN "d" ELSE c

ParseError == [err |-> TRUE, duration |-> word64(<<>>)]

\* parseSimpleTime: [err, duration].
parseSimpleTime(timeStr) ==
    LET str == TrimSpace(timeStr)
    IN  IF str = <<>> THEN ParseError
        ELSE LET unit   == str[Len(str)]
                 number == SubSeq(str, 1, Len(str) - 1)
                 value  == Atoi(number)
             IN  IF value.err THEN ParseError
                 ELSE IF ToLower(unit) = "m"
                 THEN [err |-> FALSE, duration |-> mul64(value.val, word64(Minute))]
                 ELSE IF ToLower(unit) = "h"
                 THEN [err |-> FALSE, duration |-> mul64(value.val, word64(Hour))]
                 ELSE IF ToLower(unit) = "d"
                 THEN [err |-> FALSE,
                       duration |-> mul64(mul64(value.val, word64(natOf(24))), word64(Hour))]
                 ELSE ParseError

(***************************************************************************)
(* grafanaSimpleHandler                                                    *)
(***************************************************************************)
\* time.Now().UnixNano() when the clock shows `seconds`.
UnixNano(seconds) == word64(natMul(natOf(seconds), Second))

\* The handler's answer, as [status, location]: location is empty, or holds
\* the values that Sprintf writes into "/grafana?path=%s&from=%d&to=%d".
\* from := now.Add(-duration) keeps seconds and nanoseconds apart, and
\* from.UnixNano() brings them together in an int64, which wraps.
grafanaSimpleHandler(path, simpleTime, seconds) ==
    LET result == parseSimpleTime(simpleTime)
    IN  IF result.err THEN [status |-> 400, location |-> <<>>]
        ELSE LET fromMs == quoMillion64(sub64(UnixNano(seconds), result.duration))
                 toMs   == quoMillion64(UnixNano(seconds))
             IN  [status |-> 307,
                  location |-> <<[path |-> path, from |-> fromMs, to |-> toMs]>>]

\* The time expressions tried: a number part, a unit part and white space
\* around them.  The numbers lie on both sides of the largest number of
\* minutes, hours and days that an int64 of nanoseconds holds, and of the
\* largest int64.
NumberParts ==
    { <<>>,
      <<"0">>,
      <<"1">>,
      <<"7">>,
      <<"3", "0">>,
      <<"2">>,
      <<"0", "0", "7">>,
      <<"1", "5", "3", "7", "2", "2", "8", "6", "7">>,
      <<"1", "5", "3", "7", "2", "2", "8", "6", "8">>,
      <<"3", "0", "7", "4", "4", "5", "7", "3", "5">>,
      <<"2", "5", "6", "2", "0", "4", "7">>,
      <<"2", "5", "6", "2", "0", "4", "8">>,
      <<"1", "0", "6", "7", "5", "1">>,
      <<"1", "0", "6", "7", "5", "2">>,
      <<"9", "2", "2", "3", "3", "7", "2", "0", "3", "6", "8", "5", "4", "7", "7", "5", "8", "0", "7">>,
      <<"9", "2", "2", "3", "3", "7", "2", "0", "3", "6", "8", "5", "4", "7", "7", "5", "8", "0", "8">>,
      <<"-", "5">>,
      <<"+", "5">>,
      <<"-", "0">>,
      <<"1", ".", "5">>,
      <<"1", "h", "3", "0">>,
      <<"3", " ", "0">> }

UnitParts == { <<>>, <<"m">>, <<"h">>, <<"d">>, <<"M">>, <<"H">>, <<"D">>, <<"x">>, <<"s">> }

Paddings == { <<>>, <<" ">> }

TimeStrings ==
    { l \o n \o u \o r : l \in Paddings, n \in NumberParts, u \in UnitParts, r \in Paddings }

(***************************************************************************)
(* grafanaHandler: the projection of a range of snapshots into series.     *)
(* pathMetrics is kept as the sequence of its entries in insertion order.  *)
(***************************************************************************)
\* F applied to the value of v: v is evaluated once, before F uses it.
Bind(v, F(_)) == CHOOSE result \in { F(x) : x \in {v} } : TRUE

hasKey(pm, key) == \E i \in 1..Len(pm) : pm[i].Target = key

\* pathMetrics[key] = append(pathMetrics[key], point)
appendPoint(pm, key, point) ==
    [i \in 1..Len(pm) |->
        IF pm[i].Target = key
        THEN [pm[i] EXCEPT !.Datapoints = Append(@, point)]
        ELSE pm[i]]

\* The Free point left out: only two of the three appends are made.
emitPartitionFreeless(pm, partition, timestamp) ==
    LET usedKey    == partition.Path \o " - Used"
        freeKey    == partition.Path \o " - Free"
        percentKey == partition.Path \o " - Usage %"
        pm0 == IF ~hasKey(pm, usedKey)
               THEN pm \o << [Target |-> usedKey, Datapoints |-> <<>>],
                             [Target |-> freeKey, Datapoints |-> <<>>],
                             [Target |-> percentKey, Datapoints |-> <<>>] >>
               ELSE pm
        pm1 == appendPoint(pm0, usedKey, <<partition.Used, timestamp>>)
    IN  appendPoint(pm1, percentKey, <<partition.UsagePercent, timestamp>>)

\* The body of the inner loop for one partition that passed the filter.
emitPartition(pm, partition, timestamp) ==
    LET usedKey    == partition.Path \o " - Used"
        freeKey    == partition.Path \o " - Free"
        percentKey == partition.Path \o " - Usage %"
        pm0 == IF ~hasKey(pm, usedKey)
               THEN pm \o << [Target |-> usedKey, Datapoints |-> <<>>],
                             [Target |-> freeKey, Datapoints |-> <<>>],
                             [Target |-> percentKey, Datapoints |-> <<>>] >>
               ELSE pm
        pm1 == appendPoint(pm0, usedKey, <<partition.Used, timestamp>>)
        pm2 == appendPoint(pm1, freeKey, <<partition.Free, timestamp>>)
    IN  appendPoint(pm2, percentKey, <<partition.UsagePercent, timestamp>>)

\* The comparison inverted: partition.Path == pathFilter.
filteredOutInverted(pathFilter, path) == pathFilter # "" /\ path = pathFilter

\* pathFilter != "" && partition.Path != pathFilter
filteredOut(pathFilter, path) == pathFilter # "" /\ path # pathFilter

\* for _, partition := range m.Partitions
RECURSIVE emitPartitions(_, _, _, _)
emitPartitions(pm, partitions, timestamp, pathFilter) ==
    IF partitions = <<>> THEN pm
    ELSE LET partition == Head(partitions)
         IN  Bind(IF filteredOut(pathFilter, partition.Path) THEN pm
                  ELSE emitPartition(pm, partition, timestamp),
                  LAMBDA pm1 : emitPartitions(pm1, Tail(partitions), timestamp, pathFilter))

\* for _, m := range metrics, with timestamp = m.Timestamp * 1000
RECURSIVE groupByPath(_, _, _)
groupByPath(pm, metrics, pathFilter) ==
    IF metrics = <<>> THEN pm
    ELSE LET m == Head(metrics)
         IN  Bind(emitPartitions(pm, m.Partitions, m.Timestamp * 1000, pathFilter),
                  LAMBDA pm1 : groupByPath(pm1, Tail(metrics), pathFilter))

\* The comparison turned round: sorted[i][1] > sorted[j][1].
RECURSIVE insertSortedDescending(_, _)
insertSortedDescending(sorted, point) ==
    IF sorted = <<>> THEN <<point>>
    ELSE LET last == sorted[Len(sorted)]
         IN  IF point[2] > last[2]
             THEN Append(insertSortedDescending(SubSeq(sorted, 1, Len(sorted) - 1), point), last)
             ELSE Append(sorted, point)

\* Insert point into an already sorted sequence, after every element that
\* is not greater (less(i, j) is sorted[i][1] < sorted[j][1]).
RECURSIVE insertSorted(_, _)
insertSorted(sorted, point) ==
    IF sorted = <<>> THEN <<point>>
    ELSE LET last == sorted[Len(sorted)]
         IN  IF point[2] < last[2]
             THEN Append(insertSorted(SubSeq(sorted, 1, Len(sorted) - 1), point), last)
             ELSE Append(sorted, point)

\* sort.Slice sorts up to maxInsertion elements by insertion
\* (insertionSort_func of package sort).
maxInsertion == 12

RECURSIVE insertionSort_func(_)
insertionSort_func(datapoints) ==
    IF datapoints = <<>> THEN <<>>
    ELSE Bind(insertionSort_func(SubSeq(datapoints, 1, Len(datapoints) - 1)),
              LAMBDA sorted : insertSorted(sorted, datapoints[Len(datapoints)]))

\* The less function handed to sort.Slice, and the swap of two elements.
less(sorted, i, j) == sorted[i][2] < sorted[j][2]

swap(sorted, i, j) == [sorted EXCEPT ![i] = sorted[j], ![j] = sorted[i]]

\* order2_func: <<x, y, swaps>> with the element at x not greater than the
\* one at y.
order2_func(sorted, x, y, swaps) ==
    IF less(sorted, y, x) THEN <<y, x, swaps + 1>> ELSE <<x, y, swaps>>

\* choosePivot_func for 8 to 49 elements: the median of the elements at
\* one, two and three quarters, as <<pivot, swaps>>; no swap made means
\* the slice looks increasing.  Positions count from 1.
choosePivot_func(sorted) ==
    LET l  == Len(sorted)
        i  == 1 + (l \div 4) * 1
        j  == 1 + (l \div 4) * 2
        k  == 1 + (l \div 4) * 3
        o1 == order2_func(sorted, i, j, 0)
        o2 == order2_func(sorted, o1[2], k, o1[3])
        o3 == order2_func(sorted, o1[1], o2[1], o2[3])
    IN  <<o3[2], o3[3]>>

\* partialInsertionSort_func on fewer than 50 elements moves nothing: it
\* reports whether the slice is sorted already.
partialInsertionSort_func(sorted) ==
    \A i \in 2..Len(sorted) : ~less(sorted, i, i - 1)

\* partition_func, with the pivot swapped to position 1: the two scans.
RECURSIVE scanUp(_, _, _)
scanUp(sorted, i, j) ==
    IF i <= j /\ less(sorted, i, 1) THEN scanUp(sorted, i + 1, j) ELSE i

RECURSIVE scanDown(_, _, _)
scanDown(sorted, i, j) ==
    IF i <= j /\ ~less(sorted, j, 1) THEN scanDown(sorted, i, j - 1) ELSE j

\* partition_func: the loop that swaps the misplaced pairs, then puts the
\* pivot at its place; <<slice, mid>>.
RECURSIVE partitionLoop(_, _, _)
partitionLoop(sorted, i, j) ==
    LET i1 == scanUp(sorted, i, j)
        j1 == scanDown(sorted, i1, j)
    IN  IF i1 > j1 THEN <<swap(sorted, j1, 1), j1>>
        ELSE Bind(<<swap(sorted, i1, j1), i1 + 1, j1 - 1>>,
                  LAMBDA next : partitionLoop(next[1], next[2], next[3]))

partition_func(sorted, pivot) ==
    Bind(swap(sorted, 1, pivot), LAMBDA swapped : partitionLoop(swapped, 2, Len(swapped)))

\* pdqsort_func after the partition: both sides, which are no longer than
\* maxInsertion, are sorted by insertion.
sortSides(sorted, mid) ==
    insertionSort_func(SubSeq(sorted, 1, mid - 1))
      \o <<sorted[mid]>>
      \o insertionSort_func(SubSeq(sorted, mid + 1, Len(sorted)))

\* pdqsort_func on a slice of maxInsertion + 1 elements: a slice that
\* looks increasing and is sorted is left as it is; otherwise it is
\* partitioned round the pivot.
pdqsort_func(sorted) ==
    LET pv == choosePivot_func(sorted)
    IN  IF pv[2] = 0 /\ partialInsertionSort_func(sorted) THEN sorted
        ELSE Bind(partition_func(sorted, pv[1]), LAMBDA pt : sortSides(pt[1], pt[2]))

\* sortDatapoints: sort.Slice on a copy.  The series of the model have at
\* most maxInsertion + 1 points.
sortDatapoints(datapoints) ==
    IF Len(datapoints) <= maxInsertion THEN insertionSort_func(datapoints)
    ELSE pdqsort_func(datapoints)

\* The orders in which `range pathMetrics` can visit the entries.  Go leaves
\* the order unspecified; the runtime of go 1.23 (go.mod) keeps up to eight
\* entries in one bucket, in insertion order, and starts the iteration at a
\* random slot of it, wrapping around.
rotate(seq, k) == SubSeq(seq, k + 1, Len(seq)) \o SubSeq(seq, 1, k)

mapIterOrders(pm) ==
    IF pm = <<>> THEN {<<>>} ELSE { rotate(pm, k) : k \in 0..(Len(pm) - 1) }

\* Convert map to response array.
toResponse(entries) ==
    [i \in 1..Len(entries) |->
        [Target |-> entries[i].Target,
         Datapoints |-> sortDatapoints(entries[i].Datapoints)]]

\* The check of the `to` parameter left out.
grafanaResponsesToUnchecked(d, req) ==
    LET fromMs == ParseInt(req.from)
        toMs   == ParseInt(req.to)
    IN  IF fromMs.err THEN { [status |-> 400, body |-> <<>>] }
        ELSE Bind(getRange(d, goDiv(fromMs.val, 1000), goDiv(toMs.val, 1000)),
                  LAMBDA metrics :
                    Bind(groupByPath(<<>>, metrics, req.path),
                         LAMBDA pm : { [status |-> 200, body |-> toResponse(o)] :
                                         o \in mapIterOrders(pm) }))

\* The responses grafanaHandler can write for a request on store contents d:
\* [status, body].
grafanaResponses(d, req) ==
    LET fromMs == ParseInt(req.from)
        toMs   == ParseInt(req.to)
    IN  IF fromMs.err THEN { [status |-> 400, body |-> <<>>] }
        ELSE IF toMs.err THEN { [status |-> 400, body |-> <<>>] }
        ELSE Bind(getRange(d, goDiv(fromMs.val, 1000), goDiv(toMs.val, 1000)),
                  LAMBDA metrics :
                    Bind(groupByPath(<<>>, metrics, req.path),
                         LAMBDA pm : { [status |-> 200, body |-> toResponse(o)] :
                                         o \in mapIterOrders(pm) }))

(***************************************************************************)
(* State                                                                   *)
(***************************************************************************)
VARIABLES
    mounts,     \* the mount table of the host
    data,       \* store.data: the stored snapshots, oldest first
    gauges,     \* diskUsage / diskUsagePercent: path -> last reading set
    now,        \* the clock, in whole seconds
    cycles,     \* collectMetrics runs started so far
    appended,   \* history: every snapshot written by store.add, in order
    pc,         \* where each collectMetrics run stands
    metrics,    \* the *DiskMetrics each run is building
    todo,       \* the partitions each run has still to probe
    slice,      \* the value of s.data each run last read inside add
    reply,      \* how each caller's last run ended: 200 (a snapshot) or 500
    request,    \* the range query being served, or the last one served
    seen,       \* the value of s.data the last range query read
    response,   \* the last answer to a range query
    timeStr,    \* a relative-time expression handed to parseSimpleTime
    parsed,     \* what parseSimpleTime returned for it
    redirect,   \* the last answer to a relative-time request
    scrape,     \* the gauge values written by the last scrape
    wall,       \* the reporting daemon's clock, in ticks
    scheduleTime, \* config.ScheduleTime, as a tick of the day
    dpc,        \* where the reporting daemon's loop stands
    delay,      \* what scheduleNextRun last returned
    wake,       \* the instant at which the daemon's sleep is over
    reports     \* history: the runs of processScreenshots, in order

storeVars == <<mounts, data, gauges, now, cycles, appended>>
runVars   == <<pc, metrics, todo, slice, reply>>
requestVars == <<request, seen, response, timeStr, parsed, redirect, scrape>>
daemonVars == <<wall, scheduleTime, dpc, delay, wake, reports>>
vars == <<mounts, data, gauges, now, cycles, appended, pc, metrics, todo, slice,
          reply, request, seen, response, timeStr, parsed, redirect, scrape,
          wall, scheduleTime, dpc, delay, wake, reports>>

\* The callers of collectMetrics: the background loop of main and a
\* live-snapshot request (metricsHandler).
Runners == {"collector", "live"}

NoReading  == [Total |-> 0, Used |-> 0, Free |-> 0, UsedPercent |-> 0]
NoMetrics  == [Timestamp |-> 0 - 1, Partitions |-> <<>>]
NoRequest  == [path |-> "", from |-> <<>>, to |-> <<>>]
NoResponse == [status |-> 0, body |-> <<>>]
NotParsed  == [err |-> FALSE, duration |-> <<>>]
NoRedirect == [status |-> 0, location |-> <<>>]
NoScrape   == [status |-> 0, lines |-> {}]

InitRuns ==
    /\ pc = [r \in Runners |-> "idle"]
    /\ metrics = [r \in Runners |-> NoMetrics]
    /\ todo = [r \in Runners |-> <<>>]
    /\ slice = [r \in Runners |-> <<>>]
    /\ reply = [r \in Runners |-> 0]

\* The reporting daemon, a program of its own, at the start of its loop.
InitDaemon ==
    /\ wall = 0
    /\ scheduleTime = 0
    /\ dpc = "schedule"
    /\ delay = 0
    /\ wake = 0
    /\ reports = <<>>

InitRequests ==
    /\ request = NoRequest
    /\ seen = <<>>
    /\ response = NoResponse
    /\ timeStr = <<>>
    /\ parsed = NotParsed
    /\ redirect = NoRedirect
    /\ scrape = NoScrape

\* The state after construction on a host with mount table m:
\* store.data = make([]DiskMetrics, 0).
InitOn(m) ==
    /\ mounts = m
    /\ data = <<>>
    /\ gauges = [p \in Mountpoints |-> NoReading]
    /\ now = 0
    /\ cycles = 0
    /\ appended = <<>>
    /\ InitRuns
    /\ InitRequests
    /\ InitDaemon

\* A second passes.
Tick ==
    /\ now < MaxTime
    /\ now' = now + 1
    /\ UNCHANGED <<mounts, data, gauges, cycles, appended>>
    /\ UNCHANGED runVars
    /\ UNCHANGED requestVars
    /\ UNCHANGED daemonVars

(***************************************************************************)
(* The store with one caller at a time: every call is one step.            *)
(***************************************************************************)
\* collectMetrics when disk.Partitions fails: nothing is stored.
CollectFails ==
    /\ cycles < MaxCycles
    /\ cycles' = cycles + 1
    /\ UNCHANGED <<mounts, data, gauges, now, appended>>
    /\ UNCHANGED runVars
    /\ UNCHANGED requestVars
    /\ UNCHANGED daemonVars

\* collectMetrics when disk.Partitions succeeds.
Collect ==
    /\ cycles < MaxCycles
    /\ \E outcomes \in OutcomeVectors(mounts, cycles + 1) :
         LET m == DiskMetrics(now, probeAll(mounts, outcomes))
         IN  /\ data' = add(data, m)
             /\ gauges' = setGauges(gauges, mounts, outcomes)
             /\ appended' = Append(appended, m)
    /\ cycles' = cycles + 1
    /\ UNCHANGED <<mounts, now>>
    /\ UNCHANGED runVars
    /\ UNCHANGED requestVars
    /\ UNCHANGED daemonVars

NextAtomic == Tick \/ CollectFails \/ Collect

SpecAtomic == InitOn(DataHost) /\ [][NextAtomic]_vars

(***************************************************************************)
(* The program as it runs: the background collector, live-snapshot         *)
(* requests and range queries are goroutines that share store.data with    *)
(* no lock.  Every step below holds one access to what the goroutines      *)
(* share (the clock, the gauges, s.data) together with the code around it  *)
(* that touches only the goroutine's own variables.                        *)
(***************************************************************************)
\* The failing run stores an empty snapshot all the same.
EnumerateFailsStoring(r) ==
    /\ pc[r] = "idle"
    /\ cycles < MaxCycles
    /\ cycles' = cycles + 1
    /\ reply' = [reply EXCEPT ![r] = 500]
    /\ data' = add(data, DiskMetrics(now, <<>>))
    /\ appended' = Append(appended, DiskMetrics(now, <<>>))
    /\ UNCHANGED <<mounts, gauges, now, pc, metrics, todo, slice>>
    /\ UNCHANGED requestVars
    /\ UNCHANGED daemonVars

\* The failing run ends its caller's loop.
EnumerateFailsStops(r) ==
    /\ pc[r] = "idle"
    /\ cycles < MaxCycles
    /\ cycles' = cycles + 1
    /\ reply' = [reply EXCEPT ![r] = 500]
    /\ pc' = [pc EXCEPT ![r] = "stopped"]
    /\ UNCHANGED <<mounts, data, gauges, now, appended, metrics, todo, slice>>
    /\ UNCHANGED requestVars
    /\ UNCHANGED daemonVars

\* A run starts (an iteration of main's loop, or a request to
\* /metrics/disk) and disk.Partitions(false) fails: collectMetrics returns
\* the error; main logs it and sleeps, metricsHandler answers 500.
EnumerateFails(r) ==
    /\ pc[r] = "idle"
    /\ cycles < MaxCycles
    /\ cycles' = cycles + 1
    /\ reply' = [reply EXCEPT ![r] = 500]
    /\ UNCHANGED <<mounts, data, gauges, now, appended, pc, metrics, todo, slice>>
    /\ UNCHANGED requestVars
    /\ UNCHANGED daemonVars

\* A run starts and disk.Partitions(false) succeeds; then
\* metrics := &DiskMetrics{Timestamp: time.Now().Unix(), ...}
Enumerate(r) ==
    /\ pc[r] = "idle"
    /\ cycles < MaxCycles
    /\ cycles' = cycles + 1
    /\ todo' = [todo EXCEPT ![r] = mounts]
    /\ metrics' = [metrics EXCEPT ![r] = DiskMetrics(now, <<>>)]
    /\ pc' = [pc EXCEPT ![r] = "probe"]
    /\ reply' = [reply EXCEPT ![r] = 0]
    /\ UNCHANGED <<mounts, data, gauges, now, appended, slice>>
    /\ UNCHANGED requestVars
    /\ UNCHANGED daemonVars

\* One iteration of the loop over the partitions.
Probe(r) ==
    /\ pc[r] = "probe"
    /\ todo[r] # <<>>
    /\ \E outcome \in ProbeOutcomes(Head(todo[r]), cycles) :
         /\ gauges' = setGauges(gauges, <<Head(todo[r])>>, <<outcome>>)
         /\ metrics' = [metrics EXCEPT ![r].Partitions =
                           @ \o probeAll(<<Head(todo[r])>>, <<outcome>>)]
    /\ todo' = [todo EXCEPT ![r] = Tail(@)]
    /\ UNCHANGED <<mounts, data, now, cycles, appended, pc, slice, reply>>
    /\ UNCHANGED requestVars
    /\ UNCHANGED daemonVars

\* store.add: s.data is read for append(s.data, metrics).
AddRead(r) ==
    /\ pc[r] = "probe"
    /\ todo[r] = <<>>
    /\ slice' = [slice EXCEPT ![r] = data]
    /\ pc' = [pc EXCEPT ![r] = "store"]
    /\ UNCHANGED <<metrics, todo, reply>>
    /\ UNCHANGED storeVars
    /\ UNCHANGED requestVars
    /\ UNCHANGED daemonVars

\* store.add: the result of append is written to s.data.
AddWrite(r) ==
    /\ pc[r] = "store"
    /\ data' = appendStep(slice[r], metrics[r])
    /\ appended' = Append(appended, metrics[r])
    /\ pc' = [pc EXCEPT ![r] = "check"]
    /\ slice' = [slice EXCEPT ![r] = <<>>]
    /\ UNCHANGED <<mounts, gauges, now, cycles, metrics, todo, reply>>
    /\ UNCHANGED requestVars
    /\ UNCHANGED daemonVars

\* store.add: len(s.data) > s.maxSize is false; add and collectMetrics
\* return: main sleeps a minute, metricsHandler answers with the snapshot.
AddCheckReturn(r) ==
    /\ pc[r] = "check"
    /\ ~overCapacity(data)
    /\ pc' = [pc EXCEPT ![r] = "idle"]
    /\ reply' = [reply EXCEPT ![r] = 200]
    /\ metrics' = [metrics EXCEPT ![r] = NoMetrics]
    /\ UNCHANGED <<todo, slice>>
    /\ UNCHANGED storeVars
    /\ UNCHANGED requestVars
    /\ UNCHANGED daemonVars

\* store.add: len(s.data) > s.maxSize is true.
AddCheckOver(r) ==
    /\ pc[r] = "check"
    /\ overCapacity(data)
    /\ pc' = [pc EXCEPT ![r] = "reslice"]
    /\ UNCHANGED <<metrics, todo, slice, reply>>
    /\ UNCHANGED storeVars
    /\ UNCHANGED requestVars
    /\ UNCHANGED daemonVars

\* store.add: s.data is read for s.data[1:].
DropRead(r) ==
    /\ pc[r] = "reslice"
    /\ slice' = [slice EXCEPT ![r] = data]
    /\ pc' = [pc EXCEPT ![r] = "drop"]
    /\ UNCHANGED <<metrics, todo, reply>>
    /\ UNCHANGED storeVars
    /\ UNCHANGED requestVars
    /\ UNCHANGED daemonVars

\* store.add: s.data[1:] is written to s.data; add and collectMetrics
\* return.
DropWrite(r) ==
    /\ pc[r] = "drop"
    /\ data' = dropStep(slice[r])
    /\ pc' = [pc EXCEPT ![r] = "idle"]
    /\ reply' = [reply EXCEPT ![r] = 200]
    /\ metrics' = [metrics EXCEPT ![r] = NoMetrics]
    /\ slice' = [slice EXCEPT ![r] = <<>>]
    /\ UNCHANGED <<mounts, gauges, now, cycles, appended, todo>>
    /\ UNCHANGED requestVars
    /\ UNCHANGED daemonVars

Run(r) ==
    \/ EnumerateFails(r) \/ Enumerate(r) \/ Probe(r)
    \/ AddRead(r) \/ AddWrite(r) \/ AddCheckReturn(r) \/ AddCheckOver(r)
    \/ DropRead(r) \/ DropWrite(r)

(***************************************************************************)
(* Range queries (grafanaHandler)                                          *)
(***************************************************************************)
\* The path parameter: absent, or a mount point.
PathParams == {""} \cup Mountpoints

\* The from and to parameters: absent, not a number, a number beyond the
\* int64 range (2^63), and millisecond instants on and between whole
\* seconds, one of them negative.
MsParams ==
    { <<>>, <<"x">>, <<"0">>, <<"1", "0", "0", "0">>, <<"1", "5", "0", "0">>,
      <<"2", "0", "0", "0">>, <<"-", "5", "0", "0">>,
      <<"9", "2", "2", "3", "3", "7", "2", "0", "3", "6", "8", "5", "4", "7", "7",
        "5", "8", "0", "8">> }

Requests == [path : PathParams, from : MsParams, to : MsParams]

\* The requests served while collectMetrics runs are in progress: the
\* whole range of the clock, and a request without `to`.
WholeRange == [path |-> "", from |-> <<"0">>, to |-> <<"2", "0", "0", "0">>]
ConcurrentRequests == {WholeRange, [WholeRange EXCEPT !.to = <<>>]}

\* grafanaHandler serves one of the requests reqs.  The handler reads what
\* the goroutines share once, at `range s.data` in getRange.
Grafana(reqs) ==
    /\ \E req \in reqs :
         /\ request' = req
         /\ response' \in grafanaResponses(data, req)
    /\ seen' = data
    /\ UNCHANGED <<timeStr, parsed, redirect, scrape>>
    /\ UNCHANGED storeVars
    /\ UNCHANGED runVars
    /\ UNCHANGED daemonVars

(***************************************************************************)
(* Relative-time requests (grafanaSimpleHandler) and scrapes               *)
(* (promhttp.Handler on the registered gauges)                             *)
(***************************************************************************)
\* grafanaSimpleHandler serves a request with one of the expressions strs.
\* The handler reads the clock and nothing else of what is shared.
Simple(strs) ==
    /\ \E path \in PathParams : \E simpleTime \in strs :
         /\ timeStr' = simpleTime
         /\ parsed' = parseSimpleTime(simpleTime)
         /\ redirect' = grafanaSimpleHandler(path, simpleTime, now)
    /\ UNCHANGED <<request, seen, response, scrape>>
    /\ UNCHANGED storeVars
    /\ UNCHANGED runVars
    /\ UNCHANGED daemonVars

\* The gauge values of the paths that have been set, as a scrape writes
\* them.
gaugeLines(g) == { <<p, g[p]>> : p \in { q \in Mountpoints : g[q] # NoReading } }

\* A scrape that runs collectMetrics first, as metricsHandler does.
ScrapeCollecting ==
    /\ cycles < MaxCycles
    /\ \E outcomes \in OutcomeVectors(mounts, cycles + 1) :
         LET m == DiskMetrics(now, probeAll(mounts, outcomes))
         IN  /\ data' = add(data, m)
             /\ gauges' = setGauges(gauges, mounts, outcomes)
             /\ appended' = Append(appended, m)
    /\ cycles' = cycles + 1
    /\ scrape' = [status |-> 200, lines |-> gaugeLines(gauges')]
    /\ UNCHANGED <<mounts, now>>
    /\ UNCHANGED <<request, seen, response, timeStr, parsed, redirect>>
    /\ UNCHANGED runVars
    /\ UNCHANGED daemonVars

\* GET /metrics: the registry writes the current value of every gauge.
Scrape ==
    /\ scrape' = [status |-> 200, lines |-> gaugeLines(gauges)]
    /\ UNCHANGED <<request, seen, response, timeStr, parsed, redirect>>
    /\ UNCHANGED storeVars
    /\ UNCHANGED runVars
    /\ UNCHANGED daemonVars

Next ==
    \/ Tick
    \/ \E r \in Runners : Run(r)
    \/ Grafana(ConcurrentRequests)

Spec == InitOn(SmallHost) /\ [][Next]_vars

(***************************************************************************)
(* The background collector under a fair scheduler: the goroutine of main  *)
(* is given the processor again and again and its sleep of a minute ends,  *)
(* so a step of the loop that can be taken is taken.  Range queries are    *)
(* served meanwhile.  The runs of the loop are counted up to MaxCycles.    *)
(***************************************************************************)
NextLive ==
    \/ Tick
    \/ Run("collector")
    \/ Grafana(ConcurrentRequests)

SpecLive == InitOn(SmallHost) /\ [][NextLive]_vars /\ WF_vars(Run("collector"))

(***************************************************************************)
(* Range queries on their own: a request is served on a store that earlier *)
(* runs have filled.  The snapshot at position i is the one of run i; the  *)
(* capture times are in any order, since runs that overlap can store their *)
(* snapshots out of order.                                                 *)
(***************************************************************************)
Snapshots(n) ==
    { DiskMetrics(t, probeAll(DataHost, o)) :
        t \in 0..MaxTime, o \in OutcomeVectors(DataHost, n) }

QueryStores ==
    UNION { { d \in [1..len -> UNION {Snapshots(n) : n \in 1..len}] :
                \A i \in 1..len : d[i] \in Snapshots(i) } : len \in 0..maxSize }

\* The gauges after the runs that stored d.
RECURSIVE gaugesAfter(_, _)
gaugesAfter(g, d) ==
    IF d = <<>> THEN g
    ELSE LET ps == Head(d).Partitions
             g1 == [p \in Mountpoints |->
                      IF \E i \in 1..Len(ps) : ps[i].Path = p
                      THEN LET q == ps[CHOOSE i \in 1..Len(ps) : ps[i].Path = p]
                           IN  [Total |-> q.Total, Used |-> q.Used, Free |-> q.Free,
                                UsedPercent |-> q.UsagePercent]
                      ELSE g[p]]
         IN  gaugesAfter(g1, Tail(d))

InitQuery ==
    /\ mounts = DataHost
    /\ data \in QueryStores
    /\ gauges = gaugesAfter([p \in Mountpoints |-> NoReading], data)
    /\ now = MaxTime
    /\ cycles = Len(data)
    /\ appended = data
    /\ InitRuns
    /\ InitRequests
    /\ InitDaemon

\* The handler reads nothing of an earlier request, so one request per
\* store shows all it can answer.
NextQuery == response = NoResponse /\ Grafana(Requests)

SpecQuery == InitQuery /\ [][NextQuery]_vars

(***************************************************************************)
(* A range query after a burst of runs: the store holds the snapshots of   *)
(* maxInsertion + 1 runs on the small host, captured within two seconds    *)
(* and stored in any order, as overlapping runs leave them.  The store of  *)
(* the program holds up to 60 * 24 snapshots.                              *)
(***************************************************************************)
BurstLen == maxInsertion + 1

\* The store left by runs 1..Len(ts) on the small host, run i capturing at
\* second ts[i].
RECURSIVE storeOfRuns(_)
storeOfRuns(ts) ==
    IF Len(ts) = 0 THEN <<>>
    ELSE Append(storeOfRuns(SubSeq(ts, 1, Len(ts) - 1)),
                DiskMetrics(ts[Len(ts)],
                            probeAll(SmallHost,
                                     <<[err |-> FALSE, usage |-> UsageStat("/", Len(ts))]>>)))

BurstStores == { storeOfRuns(ts) : ts \in [1..BurstLen -> 0..1] }

InitBurst ==
    /\ mounts = SmallHost
    /\ data \in BurstStores
    /\ gauges = gaugesAfter([p \in Mountpoints |-> NoReading], data)
    /\ now = 1
    /\ cycles = Len(data)
    /\ appended = data
    /\ InitRuns
    /\ InitRequests
    /\ InitDaemon

NextBurst == response = NoResponse /\ Grafana({WholeRange})

SpecBurst == InitBurst /\ [][NextBurst]_vars

(***************************************************************************)
(* The relative-time parser on its own: an expression arrives and is       *)
(* parsed.                                                                 *)
(***************************************************************************)
InitParse ==
    /\ mounts = SmallHost
    /\ data = <<>>
    /\ gauges = [p \in Mountpoints |-> NoReading]
    /\ now = 0
    /\ cycles = 0
    /\ appended = <<>>
    /\ InitRuns
    /\ request = NoRequest
    /\ seen = <<>>
    /\ response = NoResponse
    /\ timeStr \in TimeStrings
    /\ parsed = NotParsed
    /\ redirect = NoRedirect
    /\ scrape = NoScrape
    /\ InitDaemon

Parse ==
    /\ parsed = NotParsed
    /\ parsed' = parseSimpleTime(timeStr)
    /\ UNCHANGED <<request, seen, response, timeStr, redirect, scrape>>
    /\ UNCHANGED storeVars
    /\ UNCHANGED runVars
    /\ UNCHANGED daemonVars

NextParse == Parse

SpecParse == InitParse /\ [][NextParse]_vars

(***************************************************************************)
(* Relative-time requests on their own: the clock shows some second and a  *)
(* request arrives.                                                        *)
(***************************************************************************)
NextSimple ==
    \/ Tick
    \/ redirect = NoRedirect /\ Simple(TimeStrings)

SpecSimple == InitOn(SmallHost) /\ [][NextSimple]_vars

(***************************************************************************)
(* The three query endpoints beside the collector, every call one step.    *)
(***************************************************************************)
\* An hour, and an expression without a unit.
ServedTimes == { <<"1", "h">>, <<"7">> }

NextServe ==
    \/ Tick
    \/ CollectFails
    \/ Collect
    \/ Grafana({WholeRange})
    \/ Simple(ServedTimes)
    \/ Scrape

SpecServe == InitOn(SmallHost) /\ [][NextServe]_vars

(***************************************************************************)
(* The reporting daemon: main computes the delay to the next occurrence of *)
(* config.ScheduleTime, sleeps, runs processScreenshots and starts over.   *)
(* The clock counts ticks, the smallest difference time.Now() can show; a  *)
(* day has DayLen of them (a zone without clock changes) and the schedule  *)
(* is a tick of the day.                                                   *)
(***************************************************************************)
\* 24 * time.Hour, in ticks.
DayLen == 4

\* The clock is followed for MaxWall ticks and MaxReports runs.
MaxWall == 9
MaxReports == 3

\* time.Date(now.Year(), now.Month(), now.Day(), hour, minute, ...): the
\* scheduled instant of the day of t.
targetTime(schedule, t) == (t \div DayLen) * DayLen + schedule

\* scheduleNextRun called when the clock shows t.
scheduleNextRun(schedule, t) ==
    IF t > targetTime(schedule, t)
    THEN targetTime(schedule, t) + DayLen - t
    ELSE targetTime(schedule, t) - t

\* The daemon starts at some time of the first day with some schedule.
InitReporting ==
    /\ mounts = SmallHost
    /\ data = <<>>
    /\ gauges = [p \in Mountpoints |-> NoReading]
    /\ now = 0
    /\ cycles = 0
    /\ appended = <<>>
    /\ InitRuns
    /\ InitRequests
    /\ wall \in 0..(DayLen - 1)
    /\ scheduleTime \in 0..(DayLen - 1)
    /\ dpc = "schedule"
    /\ delay = 0
    /\ wake = 0
    /\ reports = <<>>

\* The daemon's clock moves on by a tick.
Pass ==
    /\ wall < MaxWall
    /\ wall' = wall + 1
    /\ UNCHANGED <<scheduleTime, dpc, delay, wake, reports>>
    /\ UNCHANGED storeVars
    /\ UNCHANGED runVars
    /\ UNCHANGED requestVars

\* delay := scheduleNextRun(config.ScheduleTime); time.Sleep(delay) begins.
Schedule ==
    /\ dpc = "schedule"
    /\ Len(reports) < MaxReports
    /\ delay' = scheduleNextRun(scheduleTime, wall)
    /\ wake' = wall + delay'
    /\ dpc' = "sleep"
    /\ UNCHANGED <<wall, scheduleTime, reports>>
    /\ UNCHANGED storeVars
    /\ UNCHANGED runVars
    /\ UNCHANGED requestVars

\* time.Sleep returns: at least the delay has passed.
Sleep ==
    /\ dpc = "sleep"
    /\ wall >= wake
    /\ dpc' = "run"
    /\ UNCHANGED <<wall, scheduleTime, delay, wake, reports>>
    /\ UNCHANGED storeVars
    /\ UNCHANGED runVars
    /\ UNCHANGED requestVars

\* processScreenshots runs and succeeds or fails; either way main logs the
\* outcome and goes round the loop.  The clock may or may not have moved
\* when the next delay is computed.
ProcessScreenshots ==
    /\ dpc = "run"
    /\ \E ok \in BOOLEAN : reports' = Append(reports, [at |-> wall, ok |-> ok])
    /\ dpc' = "schedule"
    /\ UNCHANGED <<wall, scheduleTime, delay, wake>>
    /\ UNCHANGED storeVars
    /\ UNCHANGED runVars
    /\ UNCHANGED requestVars

NextReporting == Pass \/ Schedule \/ Sleep \/ ProcessScreenshots

SpecReporting == InitReporting /\ [][NextReporting]_vars

(***************************************************************************)
(* Properties of the store                                                 *)
(***************************************************************************)
\* C1: after any sequence of completed add calls, each taken as one step,
\* the store holds at most maxSize snapshots.
StoreBounded == Len(data) <= maxSize

\* An add has evicted: more snapshots were added than the store holds.
StoreBoundedWitness == Len(appended) > maxSize /\ Len(data) = maxSize

\* The clock's whole range, for a query that covers all times.
BeforeAll == 0 - 1
AfterAll  == MaxTime + 1

\* The last k elements of a sequence.
LastOf(seq, k) == SubSeq(seq, Len(seq) - k + 1, Len(seq))

\* C2: eviction is strict FIFO: after more than maxSize appends to the
\* empty store, a range query covering all times returns exactly the last
\* maxSize appended snapshots, in the order they were appended.
EvictionFIFO ==
    Len(appended) > maxSize =>
        getRange(data, BeforeAll, AfterAll) = LastOf(appended, maxSize)

\* More snapshots were appended than fit, and the first was not the same
\* as the ones kept.
EvictionFIFOWitness ==
    /\ Len(appended) > maxSize
    /\ \A i \in 1..Len(data) : data[i] # appended[1]

\* C3: a range query never sees a partly added snapshot: what it reads of
\* the store is the store before an add or after it, so never more than
\* maxSize snapshots.
ReaderSeesWholeAdds == Len(seen) <= maxSize

\* C4: only the background collector changes the store: a step of a
\* live-snapshot request leaves store.data as it is.
OnlyCollectorWrites == [][pc'["live"] # pc["live"] => data' = data]_vars

\* C5: the stored snapshots are in capture-time order in every state, for
\* every interleaving of collectMetrics runs.
StoreInCaptureOrder ==
    \A i \in 1..Len(data) : \A j \in 1..Len(data) :
        i < j => data[i].Timestamp <= data[j].Timestamp

\* The stored snapshots captured in the closed interval [fromTime, toTime].
CapturedWithin(d, fromTime, toTime) ==
    SelectSeq(d, LAMBDA m : fromTime <= m.Timestamp /\ m.Timestamp <= toTime)

\* C6: for every pair of instants, fromTime > toTime included, getRange
\* returns exactly the stored snapshots captured in [fromTime, toTime].
GetRangeClosedInterval ==
    \A fromTime \in BeforeAll..AfterAll : \A toTime \in BeforeAll..AfterAll :
        getRange(data, fromTime, toTime) = CapturedWithin(data, fromTime, toTime)

\* Every element of sequence a is an element of sequence b.
AllIn(a, b) == \A i \in 1..Len(a) : \E j \in 1..Len(b) : b[j] = a[i]

\* C7: getRange is monotonic: a wider interval returns every snapshot the
\* narrower one returned.
GetRangeMonotonic ==
    \A fromTime \in BeforeAll..AfterAll : \A toTime \in BeforeAll..AfterAll :
        \A wideFrom \in BeforeAll..fromTime : \A wideTo \in toTime..AfterAll :
            AllIn(getRange(data, fromTime, toTime), getRange(data, wideFrom, wideTo))

(***************************************************************************)
(* Properties of the collector                                             *)
(***************************************************************************)
\* C16: when the enumeration of the partitions fails, collectMetrics
\* returns the error and stores nothing: in the step of the failing call
\* the store and the gauges stay as they are, and the caller, a
\* live-snapshot request included, ends with the error (status 500).
EnumerationFailureStoresNothing ==
    [][(cycles' = cycles + 1 /\ pc' = pc) =>
          /\ data' = data
          /\ gauges' = gauges
          /\ \E r \in Runners :
               /\ pc[r] = "idle"
               /\ reply'[r] = 500
               /\ \A q \in Runners \ {r} : reply'[q] = reply[q]]_vars

\* A live-snapshot request was answered 500 while the store holds a
\* snapshot with a reading and the gauge of "/" is set.
EnumerationFailureStoresNothingWitness ==
    /\ reply["live"] = 500
    /\ data # <<>>
    /\ data[1].Partitions # <<>>
    /\ gauges["/"] # NoReading

\* C22: when collectMetrics runs overlap, with the steps of add interleaved
\* freely, no append is lost and the bound survives: once every run has
\* completed, the store holds at most maxSize snapshots and each of the
\* last maxSize snapshots appended is in it (an older one is evicted by
\* FIFO order).
OverlappingAddsKeepAll ==
    (\A r \in Runners : pc[r] = "idle") =>
        /\ Len(data) <= maxSize
        /\ \A i \in 1..Len(appended) :
             i > Len(appended) - maxSize =>
                 \E k \in 1..Len(data) : data[k] = appended[i]

\* The place of a mount point in the mount table.
DiscoveryIndex(p) == CHOOSE i \in 1..Len(mounts) : mounts[i] = p

\* C17: a run whose enumeration succeeded appends one snapshot, stamped
\* with the clock, that holds the readings of this run for some of the
\* partitions, in discovery order; these are the partitions whose gauges
\* the run has set to its readings (the probe succeeded), and the gauges
\* of every other partition are as they were (the probe failed and the
\* partition was skipped).  The snapshot is the newest of the store.
PartialSnapshotStored ==
    [][Len(appended') = Len(appended) + 1 =>
          LET m     == appended'[Len(appended')]
              found == { m.Partitions[i].Path : i \in 1..Len(m.Partitions) }
          IN  /\ m.Timestamp = now
              /\ data' # <<>> /\ data'[Len(data')] = m
              /\ \A i \in 1..Len(m.Partitions) :
                   /\ \E k \in 1..Len(mounts) : mounts[k] = m.Partitions[i].Path
                   /\ m.Partitions[i] =
                        PartitionMetrics(m.Partitions[i].Path,
                                         UsageStat(m.Partitions[i].Path, cycles'))
                   /\ \A j \in 1..Len(m.Partitions) :
                        i < j => DiscoveryIndex(m.Partitions[i].Path)
                                   < DiscoveryIndex(m.Partitions[j].Path)
              /\ \A p \in Mountpoints :
                   IF p \in found THEN gauges'[p] = UsageStat(p, cycles')
                   ELSE gauges'[p] = gauges[p]]_vars

\* One run stored a snapshot without any reading (every probe failed) and
\* one stored a snapshot with the reading of "/data" alone (the probe of
\* "/" failed).
PartialSnapshotStoredWitness ==
    \E i \in 1..Len(appended) : \E j \in 1..Len(appended) :
        /\ appended[i].Partitions = <<>>
        /\ Len(appended[j].Partitions) = 1
        /\ appended[j].Partitions[1].Path = "/data"

\* C18: whatever the runs of the background loop came to so far, the loop
\* starts its next run (as long as runs are counted), and a run whose
\* enumeration succeeded appends its snapshot.
CollectorNeverStops ==
    /\ \A n \in 0..(MaxCycles - 1) : (cycles = n) ~> (cycles = n + 1)
    /\ \A k \in 0..MaxCycles :
         (pc["collector"] = "probe" /\ Len(appended) = k) ~> (Len(appended) = k + 1)

\* The first run of the loop failed and the second has appended its
\* snapshot.
CollectorNeverStopsWitness ==
    /\ cycles = 2
    /\ pc["collector"] = "check"
    /\ Len(appended) = 1
    /\ pc["live"] = "idle" /\ reply["live"] = 0

(***************************************************************************)
(* Properties of the projection                                            *)
(***************************************************************************)
\* The snapshots the served request ranged over.
Ranged ==
    getRange(seen, goDiv(ParseInt(request.from).val, 1000),
                   goDiv(ParseInt(request.to).val, 1000))

\* The partition readings in those snapshots, as <<snapshot, partition>>.
RangedReadings ==
    UNION { { <<Ranged[i], Ranged[i].Partitions[j]>> : j \in 1..Len(Ranged[i].Partitions) } :
              i \in 1..Len(Ranged) }

\* The paths the request asks for that have a reading in the range.
AnsweredPaths ==
    { rd[2].Path : rd \in { x \in RangedReadings :
                              request.path = "" \/ x[2].Path = request.path } }

\* The names of the series in the response, and the points of one series.
ResponseTargets == { response.body[i].Target : i \in 1..Len(response.body) }

PointsOf(target) ==
    UNION { { response.body[i].Datapoints[k] : k \in 1..Len(response.body[i].Datapoints) } :
              i \in { n \in 1..Len(response.body) : response.body[n].Target = target } }

\* C10: the projection is path-filter-exact: with a filter p the response
\* holds only the series "p - Used", "p - Free" and "p - Usage %", built
\* from the readings whose path is exactly p; with no filter every path
\* that has a reading in the range contributes its three series.
ProjectionPathExact ==
    response.status = 200 =>
        /\ ResponseTargets =
             UNION { {p \o " - Used", p \o " - Free", p \o " - Usage %"} : p \in AnsweredPaths }
        /\ Cardinality(ResponseTargets) = Len(response.body)
        /\ \A p \in AnsweredPaths :
             LET mine == { rd \in RangedReadings : rd[2].Path = p }
             IN  /\ PointsOf(p \o " - Used") =
                      { <<rd[2].Used, rd[1].Timestamp * 1000>> : rd \in mine }
                 /\ PointsOf(p \o " - Free") =
                      { <<rd[2].Free, rd[1].Timestamp * 1000>> : rd \in mine }
                 /\ PointsOf(p \o " - Usage %") =
                      { <<rd[2].UsagePercent, rd[1].Timestamp * 1000>> : rd \in mine }

\* A request filtered on "/" was answered from a range that also holds
\* readings of "/data".
ProjectionPathExactWitness ==
    /\ response.status = 200
    /\ request.path = "/"
    /\ Len(response.body) = 3
    /\ \E rd \in RangedReadings : rd[2].Path = "/data"

\* The positions <<i, j>> of the readings of path p in the queried range:
\* partition j of the i-th snapshot of the range.
ReadingSlots(p) ==
    UNION { { <<i, j>> : j \in { k \in 1..Len(Ranged[i].Partitions) :
                                    Ranged[i].Partitions[k].Path = p } } :
              i \in 1..Len(Ranged) }

\* The three series of a path, and the value each takes from a reading.
Suffixes == {" - Used", " - Free", " - Usage %"}

ValueOf(suffix, reading) ==
    IF suffix = " - Used" THEN reading.Used
    ELSE IF suffix = " - Free" THEN reading.Free
    ELSE reading.UsagePercent

\* The point a reading slot gives to a series.
SlotPoint(suffix, slot) ==
    << ValueOf(suffix, Ranged[slot[1]].Partitions[slot[2]]),
       Ranged[slot[1]].Timestamp * 1000 >>

\* The datapoints of the series named target, and how often a point occurs
\* in a sequence of points.
SeriesOf(target) ==
    response.body[CHOOSE n \in 1..Len(response.body) :
                      response.body[n].Target = target].Datapoints

Count(points, pt) == Cardinality({ k \in 1..Len(points) : points[k] = pt })

\* The paths let through by the filter of the request.
PassingPaths == { p \in Mountpoints : request.path = "" \/ p = request.path }

\* C11: every reading of the queried range that passes the filter gives
\* exactly one point to each of the three series of its path, with the
\* reading's used, free and percent values and the snapshot's timestamp in
\* milliseconds; the three series of a path are equally long; a range
\* without a passing reading gives an empty response.
ProjectionOnePointEach ==
    response.status = 200 =>
        /\ \A p \in PassingPaths : \A suffix \in Suffixes :
             IF ReadingSlots(p) = {}
             THEN (p \o suffix) \notin ResponseTargets
             ELSE /\ (p \o suffix) \in ResponseTargets
                  /\ Len(SeriesOf(p \o suffix)) = Cardinality(ReadingSlots(p))
                  /\ Len(SeriesOf(p \o suffix)) = Len(SeriesOf(p \o " - Used"))
                  /\ \A slot \in ReadingSlots(p) :
                       Count(SeriesOf(p \o suffix), SlotPoint(suffix, slot)) =
                         Cardinality({ s \in ReadingSlots(p) :
                                         SlotPoint(suffix, s) = SlotPoint(suffix, slot) })
        /\ (\A p \in PassingPaths : ReadingSlots(p) = {}) => response.body = <<>>

\* Two snapshots of the range both hold a reading of "/", and the series
\* "/ - Free" of the response has their two points.
ProjectionOnePointEachWitness ==
    /\ response.status = 200
    /\ Cardinality(ReadingSlots("/")) = 2
    /\ "/ - Free" \in ResponseTargets
    /\ Len(SeriesOf("/ - Free")) = 2

\* The points of the series named target as the loop emitted them, before
\* the sort.
EmittedOf(target) ==
    Bind(groupByPath(<<>>, Ranged, request.path),
         LAMBDA pm : pm[CHOOSE n \in 1..Len(pm) : pm[n].Target = target].Datapoints)

\* C12: in every answer to a range query the datapoints of every series
\* have non-decreasing timestamps, whatever the order of the snapshots in
\* the store, and the series is a permutation of the points emitted for it.
SeriesSorted ==
    response.status = 200 =>
        \A n \in 1..Len(response.body) :
            \A emitted \in {EmittedOf(response.body[n].Target)} :
                LET points == response.body[n].Datapoints
                IN  /\ \A k \in 1..(Len(points) - 1) : points[k][2] <= points[k + 1][2]
                    /\ Len(points) = Len(emitted)
                    /\ \A k \in 1..Len(emitted) :
                         Count(points, emitted[k]) = Count(emitted, emitted[k])

\* The store held a later snapshot before an earlier one, both with a
\* reading of "/", and the request ranged over both.
SeriesSortedWitness ==
    /\ response.status = 200
    /\ Len(Ranged) = 2
    /\ Ranged[1].Timestamp > Ranged[2].Timestamp
    /\ "/ - Used" \in ResponseTargets
    /\ Len(SeriesOf("/ - Used")) = 2

\* The place of a point among the points emitted for a series: the loop
\* emits them in the order the snapshots are held in the store.
IngestionIndex(emitted, pt) ==
    CHOOSE k \in 1..Len(emitted) : emitted[k] = pt

\* C13: the sort of a series is stable: points with the same timestamp are
\* in the response in the order their snapshots are held in the store.
SortStable ==
    response.status = 200 =>
        \A n \in 1..Len(response.body) :
            \A emitted \in {EmittedOf(response.body[n].Target)} :
                LET points == response.body[n].Datapoints
                IN  \A k \in 1..Len(points) : \A l \in 1..Len(points) :
                        (k < l /\ points[k][2] = points[l][2]) =>
                            IngestionIndex(emitted, points[k]) < IngestionIndex(emitted, points[l])

\* C14: the order of the series in a response is deterministic: a range
\* query with the parameters of the one before it, reading the same store
\* contents, is answered with the same sequence of series.
SeriesOrderDeterministic ==
    [][(request # NoRequest /\ request' = request /\ seen' = seen)
          => response' = response]_vars

\* A string that reads as an integer of 64 bits: an optional sign, one or
\* more digits, and a value from -2^63 to 2^63 - 1.
IsInt64Text(s) ==
    LET signed == s # <<>> /\ s[1] \in {"+", "-"}
        body   == IF signed THEN Tail(s) ELSE s
    IN  /\ body # <<>>
        /\ \A i \in 1..Len(body) : isDigit(body[i])
        /\ \/ natLess(natOfDigits(body), TwoTo63)
           \/ (signed /\ s[1] = "-" /\ natOfDigits(body) = TwoTo63)

\* C15: a range query whose from or to is missing or does not read as an
\* integer is answered 400 with no series, and the store is as it was; a
\* range query whose from and to both read as integers is answered 200
\* with a sequence of {Target, Datapoints} objects, the datapoints being
\* pairs, also on an empty store and when from > to.
RangeQueryStatus ==
    response # NoResponse =>
        /\ data = appended
        /\ IF IsInt64Text(request.from) /\ IsInt64Text(request.to)
           THEN /\ response.status = 200
                /\ \A n \in 1..Len(response.body) :
                     /\ DOMAIN response.body[n] = {"Target", "Datapoints"}
                     /\ \A k \in 1..Len(response.body[n].Datapoints) :
                          Len(response.body[n].Datapoints[k]) = 2
           ELSE /\ response.status = 400
                /\ response.body = <<>>

\* A request with a good from and no to was refused although the store
\* holds snapshots.
RangeQueryStatusWitness ==
    /\ response.status = 400
    /\ IsInt64Text(request.from)
    /\ request.to = <<>>
    /\ data # <<>>

\* C21: in the answer to a range query with the millisecond parameters
\* from and to, every datapoint has a time t with from <= t <= to, and
\* every stored snapshot with from <= capturedAt * 1000 <= to has given
\* the points of its readings that pass the filter: the division of the
\* bounds by 1000 admits no snapshot from before `from` and drops none
\* inside the interval.
MillisecondBoundsExact ==
    response.status = 200 =>
        LET fromMs == ParseInt(request.from).val
            toMs   == ParseInt(request.to).val
        IN  /\ \A n \in 1..Len(response.body) :
                 \A k \in 1..Len(response.body[n].Datapoints) :
                     /\ fromMs <= response.body[n].Datapoints[k][2]
                     /\ response.body[n].Datapoints[k][2] <= toMs
            /\ \A i \in 1..Len(seen) :
                 (fromMs <= seen[i].Timestamp * 1000 /\ seen[i].Timestamp * 1000 <= toMs) =>
                     \A j \in 1..Len(seen[i].Partitions) :
                         seen[i].Partitions[j].Path \in PassingPaths =>
                             \A suffix \in Suffixes :
                                 << ValueOf(suffix, seen[i].Partitions[j]),
                                    seen[i].Timestamp * 1000 >>
                                   \in PointsOf(seen[i].Partitions[j].Path \o suffix)

(***************************************************************************)
(* Properties of the relative-time endpoint and of the endpoints together  *)
(***************************************************************************)
\* The clock in milliseconds, as an int64.
NowMs == word64(natOf(now * Thousand))

\* C19: a relative-time request whose expression parses to the duration d
\* is answered with a redirect that carries to = now and from = now - d,
\* in milliseconds (an hour gives from = now - 3600000), and from <= to;
\* an expression that does not parse is answered with 400 and no
\* redirect.
RelativeRedirect ==
    [][redirect' # redirect =>
          IF parsed'.err
          THEN redirect'.status = 400 /\ redirect'.location = <<>>
          ELSE /\ redirect'.status = 307
               /\ Len(redirect'.location) = 1
               /\ redirect'.location[1].to = NowMs
               /\ redirect'.location[1].from =
                    sub64(NowMs, quoMillion64(parsed'.duration))
               /\ timeStr' = <<"1", "h">> =>
                    redirect'.location[1].from = sub64(NowMs, word64(natOf(3600000)))
               /\ lessEq64(redirect'.location[1].from, redirect'.location[1].to)]_vars

\* C20: a step that serves a range query, a relative-time request or a
\* scrape starts no run of collectMetrics, appends nothing to the store,
\* evicts nothing and leaves every gauge as it is.
EndpointsReadOnly ==
    [][(requestVars' # requestVars) =>
          /\ cycles' = cycles
          /\ appended' = appended
          /\ data' = data
          /\ gauges' = gauges
          /\ runVars' = runVars]_vars

\* The three endpoints have answered on a store that has evicted and with
\* a gauge set.
EndpointsReadOnlyWitness ==
    /\ response.status = 200 /\ response.body # <<>>
    /\ redirect.status = 307
    /\ scrape.status = 200 /\ scrape.lines # {}
    /\ Len(appended) > maxSize

(***************************************************************************)
(* Properties of the parser                                                *)
(***************************************************************************)
\* The parts of the trimmed expression.
UnitOf(str)   == str[Len(str)]
NumberOf(str) == SubSeq(str, 1, Len(str) - 1)

\* One or more digits followed by one of m, h, d in either case.
WellFormed(str) ==
    /\ Len(str) >= 2
    /\ \A i \in 1..(Len(str) - 1) : isDigit(str[i])
    /\ UnitOf(str) \in {"m", "h", "d", "M", "H", "D"}

\* The length of a unit in nanoseconds.
UnitLength(u) ==
    IF u \in {"m", "M"} THEN Minute
    ELSE IF u \in {"h", "H"} THEN Hour
    ELSE natMul(natOf(24), Hour)

\* The duration is exactly n nanoseconds.
IsDuration(d, n) == ~isNegative64(d) /\ natOfWord(d) = n

\* C8: an expression that is, once trimmed, a digit string N and a unit
\* letter is parsed without error to N minutes, N hours or N * 24 hours.
ParseWellFormed ==
    (parsed # NotParsed /\ WellFormed(TrimSpace(timeStr))) =>
        /\ ~parsed.err
        /\ IsDuration(parsed.duration,
                      natMul(natOfDigits(NumberOf(TrimSpace(timeStr))),
                             UnitLength(UnitOf(TrimSpace(timeStr)))))

\* C9: every expression that is not, once trimmed, digits followed by one
\* of m, h, d fails, and no accepted expression gives a negative duration.
ParseRejectsOthers ==
    parsed # NotParsed =>
        /\ ~WellFormed(TrimSpace(timeStr)) => parsed.err
        /\ ~parsed.err => ~isNegative64(parsed.duration)

\* C23: parseSimpleTime never wraps around: for every number N >= 0 that
\* strconv.Atoi accepts and every unit, the duration returned is N times
\* the length of the unit, in nanoseconds, and is not negative.
ParseNeverWraps ==
    LET str == TrimSpace(timeStr)
    IN  (/\ parsed # NotParsed
         /\ Len(str) >= 1
         /\ UnitOf(str) \in {"m", "h", "d", "M", "H", "D"}
         /\ ~Atoi(NumberOf(str)).err
         /\ ~isNegative64(Atoi(NumberOf(str)).val)) =>
            /\ ~parsed.err
            /\ IsDuration(parsed.duration,
                          natMul(natOfWord(Atoi(NumberOf(str)).val),
                                 UnitLength(UnitOf(str))))

(***************************************************************************)
(* Properties of the reporting daemon                                      *)
(***************************************************************************)
\* The scheduled occurrence a run at instant t belongs to: the number of
\* the last scheduled instant not after t.
OccurrenceOf(t) == (t + DayLen - scheduleTime) \div DayLen

\* C24: the report runs at most once per occurrence of the scheduled time
\* of day: scheduleNextRun returns a delay between 0 and 24 hours that
\* ends at the next occurrence (today's if now is not after it, otherwise
\* tomorrow's); the delay computed after a run at the scheduled instant
\* ends on the following day, also when the clock has not moved during
\* the run; no two runs belong to the same occurrence; and a failed run
\* leaves the loop at the computation of the next delay.
ReportOncePerOccurrence ==
    [][/\ (dpc = "schedule" /\ dpc' = "sleep") =>
            /\ delay' >= 0 /\ delay' <= DayLen
            /\ wake' = wall + delay'
            /\ wake' % DayLen = scheduleTime
            /\ wall <= targetTime(scheduleTime, wall) =>
                   wake' = targetTime(scheduleTime, wall)
            /\ wall > targetTime(scheduleTime, wall) =>
                   wake' = targetTime(scheduleTime, wall) + DayLen
            /\ (reports # <<>> /\ reports[Len(reports)].at = wake) =>
                   wake' = wake + DayLen
       /\ Len(reports') = Len(reports) + 1 => dpc' = "schedule"
       /\ \A i \in 1..Len(reports') : \A j \in 1..Len(reports') :
              i < j => OccurrenceOf(reports'[i].at) < OccurrenceOf(reports'[j].at)]_vars

====
